---- MODULE Spec2Model ----
(***************************************************************************)
(* Kybus voxel engine skeleton: the Shader wrapper (Shader.cpp), the Mesh  *)
(* wrapper (Mesh.cpp) and the application loop (main.cpp), over a model of *)
(* the OpenGL context they drive and of the SDL calls main makes.          *)
(*                                                                         *)
(* Two specifications:                                                     *)
(*   ObjSpec  the two classes used as a library: Shader objects and a Mesh *)
(*            constructed from any inputs, used and destroyed in any order *)
(*   Spec     main(): initialisation, the frame loop, teardown             *)
(***************************************************************************)
EXTENDS Integers, Sequences, FiniteSets, TLC

VARIABLES
    gl,         \* the OpenGL context: objects, bindings, lifecycle call counts
    out,        \* std::cout: the diagnostics printed so far
    shader,     \* the Shader objects: [life, programID]
    cube,       \* the Mesh object: [life, VAO, VBO, EBO, indexCount]
    pc,         \* main(): the statement about to run
    sdl,        \* SDL: subsystem, window, GL context, event queue, key array
    running,    \* main(): bool running
    cam,        \* main(): cameraX, cameraY, cameraZ (single-precision floats)
    angle,      \* main(): float angle
    model,      \* main(): glm::mat4 model (the angle it was last built from)
    frame,      \* history: per-iteration bookkeeping of the frame loop
    exitCode    \* main(): the value returned (-1 while the process runs)

glVars  == <<gl, out, shader, cube>>
appVars == <<pc, sdl, running, cam, angle, model, frame, exitCode>>
vars    == <<gl, out, shader, cube, pc, sdl, running, cam, angle, model, frame, exitCode>>

-----------------------------------------------------------------------------
(* Bounds of the model *)

\* longest index list given to a Mesh in ObjSpec
MaxIndexLen == 1
\* most vertices in a vertex list given to a Mesh in ObjSpec
MaxVertices == 1
\* most draw() calls on the Mesh in ObjSpec
MaxDraws == 2
\* most iterations of main's frame loop
MaxFrames == 6
\* most events SDL ever queues in one run of main
MaxEvents == 1

-----------------------------------------------------------------------------
(* Small helpers *)

Min(S) == CHOOSE x \in S : \A y \in S : x <= y

\* f with key k removed
Drop(f, k) == [x \in (DOMAIN f) \ {k} |-> f[x]]

\* f with key k bound to v
Put(f, k, v) == [x \in (DOMAIN f) \cup {k} |-> IF x = k THEN v ELSE f[x]]

\* GL hands out an unused name; drivers hand out the smallest one
FreshName(used) == Min((1..(Cardinality(used) + 1)) \ used)

-----------------------------------------------------------------------------
(* The OpenGL context                                                      *)

NoAttrib == [enabled |-> FALSE, buffer |-> 0, size |-> 0, stride |-> 0]

LifecycleCalls ==
    {"glGenVertexArrays", "glGenBuffers", "glDeleteVertexArrays", "glDeleteBuffers",
     "glCreateShader", "glDeleteShader", "glCreateProgram", "glDeleteProgram"}

\* a context with no objects and nothing bound; c is "none" (not asked for
\* yet), "null" (creation failed), "current" or "deleted"
FreshGL(c) ==
    [ctx        |-> c,
     vaos       |-> <<>>,      \* name -> [ebo, attrib0]
     buffers    |-> <<>>,      \* name -> [size, data, usage]
     boundVAO   |-> 0,
     boundArray |-> 0,
     shaders    |-> <<>>,      \* name -> [type, source, compiled, flagged]
     programs   |-> <<>>,      \* name -> [attached, linked, uniforms, flagged]
     current    |-> 0,         \* the active program
     depthTest  |-> FALSE,
     cleared    |-> 0,         \* glClear calls
     draws      |-> 0,         \* glDrawElements calls
     lastDraw   |-> <<>>,      \* the last glDrawElements call
     calls      |-> [c1 \in LifecycleCalls |-> 0],
     ignored    |-> 0]         \* calls issued while no context was current

\* every GL entry point: a call with no current context is ignored
\* (and counted); otherwise it has effect r
Call(g, r) == IF g.ctx = "current" THEN r ELSE [g EXCEPT !.ignored = @ + 1]

Count(g, c) == [g EXCEPT !.calls[c] = @ + 1]

glGenVertexArrays(g) ==
    LET n == FreshName(DOMAIN g.vaos)
    IN  [name |-> IF g.ctx = "current" THEN n ELSE 0,
         g |-> Call(g, [Count(g, "glGenVertexArrays") EXCEPT
                            !.vaos = Put(@, n, [ebo |-> 0, attrib0 |-> NoAttrib])])]

glGenBuffers(g) ==
    LET n == FreshName(DOMAIN g.buffers)
    IN  [name |-> IF g.ctx = "current" THEN n ELSE 0,
         g |-> Call(g, [Count(g, "glGenBuffers") EXCEPT
                            !.buffers = Put(@, n, [size |-> 0, data |-> <<>>, usage |-> "none"])])]

glBindVertexArray(g, vao) ==
    Call(g, IF vao = 0 \/ vao \in DOMAIN g.vaos THEN [g EXCEPT !.boundVAO = vao] ELSE g)

glBindBuffer(g, target, buf) ==
    Call(g, IF buf # 0 /\ buf \notin DOMAIN g.buffers THEN g
            ELSE IF target = "GL_ARRAY_BUFFER" THEN [g EXCEPT !.boundArray = buf]
            ELSE IF g.boundVAO = 0 THEN g
            ELSE [g EXCEPT !.vaos[g.boundVAO].ebo = buf])

\* the buffer bound to target
BoundBuffer(g, target) ==
    IF target = "GL_ARRAY_BUFFER" THEN g.boundArray
    ELSE IF g.boundVAO = 0 THEN 0 ELSE g.vaos[g.boundVAO].ebo

glBufferData(g, target, size, data, usage) ==
    LET b == BoundBuffer(g, target)
    IN  Call(g, IF b = 0 THEN g
                ELSE [g EXCEPT !.buffers[b] = [size |-> size, data |-> data, usage |-> usage]])

glVertexAttribPointer(g, index, size, type, normalized, stride, offset) ==
    Call(g, IF g.boundVAO = 0 \/ index # 0 THEN g
            ELSE [g EXCEPT !.vaos[g.boundVAO].attrib0 =
                      [@ EXCEPT !.buffer = g.boundArray, !.size = size, !.stride = stride]])

glEnableVertexAttribArray(g, index) ==
    Call(g, IF g.boundVAO = 0 \/ index # 0 THEN g
            ELSE [g EXCEPT !.vaos[g.boundVAO].attrib0.enabled = TRUE])

\* deleting the bound vertex array reverts the binding to 0; name 0 and
\* unused names are silently ignored
glDeleteVertexArrays(g, vao) ==
    Call(g, IF vao \notin DOMAIN g.vaos THEN g
            ELSE [Count(g, "glDeleteVertexArrays") EXCEPT
                      !.vaos = Drop(@, vao),
                      !.boundVAO = IF @ = vao THEN 0 ELSE @])

\* deleting a buffer resets the bindings of the current context that name it
glDeleteBuffers(g, buf) ==
    Call(g, IF buf \notin DOMAIN g.buffers THEN g
            ELSE LET g1 == [Count(g, "glDeleteBuffers") EXCEPT
                                !.buffers = Drop(@, buf),
                                !.boundArray = IF @ = buf THEN 0 ELSE @]
                 IN  IF g1.boundVAO # 0 /\ g1.vaos[g1.boundVAO].ebo = buf
                     THEN [g1 EXCEPT !.vaos[g1.boundVAO].ebo = 0]
                     ELSE g1)

glDrawElements(g, mode, count, type, offset) ==
    Call(g, [g EXCEPT !.draws = @ + 1,
                      !.lastDraw = [mode |-> mode, count |-> count, type |-> type,
                                    vao |-> g.boundVAO, program |-> g.current]])

glEnable(g, cap) == Call(g, [g EXCEPT !.depthTest = TRUE])

\* glClearColor followed by glClear(COLOR | DEPTH)
glClear(g) == Call(g, [g EXCEPT !.cleared = IF @ = 0 THEN 1 ELSE @])

-----------------------------------------------------------------------------
(* Mesh (Mesh.cpp)                                                         *)

SizeofFloat == 4
SizeofUInt == 4

\* a Mesh not constructed yet
NoMesh == [life |-> "unborn", VAO |-> 0, VBO |-> 0, EBO |-> 0, indexCount |-> 0]

\* Mesh::setupMesh: the context and the fields it leaves behind
setupMesh(g, vertices, indices) ==
    LET indexCount == Len(indices)
        a  == glGenVertexArrays(g)
        b  == glGenBuffers(a.g)
        c  == glGenBuffers(b.g)
        g1 == glBindVertexArray(c.g, a.name)
        g2 == glBindBuffer(g1, "GL_ARRAY_BUFFER", b.name)
        g3 == glBufferData(g2, "GL_ARRAY_BUFFER", Len(vertices) * SizeofFloat,
                           vertices, "GL_STATIC_DRAW")
        g4 == glBindBuffer(g3, "GL_ELEMENT_ARRAY_BUFFER", c.name)
        g5 == glBufferData(g4, "GL_ELEMENT_ARRAY_BUFFER", Len(indices) * SizeofUInt,
                           indices, "GL_STATIC_DRAW")
        g6 == glVertexAttribPointer(g5, 0, 3, "GL_FLOAT", FALSE, 3 * SizeofFloat, 0)
        g7 == glEnableVertexAttribArray(g6, 0)
        g8 == glBindBuffer(g7, "GL_ARRAY_BUFFER", 0)
        g9 == glBindVertexArray(g8, 0)
    IN  [g |-> g9,
         obj |-> [life |-> "alive", VAO |-> a.name, VBO |-> b.name, EBO |-> c.name,
                  indexCount |-> indexCount]]

\* Mesh::Mesh
Mesh(g, vertices, indices) == setupMesh(g, vertices, indices)

\* MeshDtor with the index buffer never deleted
MeshDtorLeaksEBO(g, m) ==
    LET g1 == glDeleteVertexArrays(g, m.VAO)
        g2 == glDeleteBuffers(g1, m.VBO)
    IN  g2

\* Mesh::~Mesh: the context after the three deletes
MeshDtor(g, m) ==
    LET g1 == glDeleteVertexArrays(g, m.VAO)
        g2 == glDeleteBuffers(g1, m.VBO)
        g3 == glDeleteBuffers(g2, m.EBO)
    IN  g3

\* draw with the vertex array left bound on return
drawLeavesBound(g, m) ==
    LET g1 == glBindVertexArray(g, m.VAO)
        g2 == glDrawElements(g1, "GL_TRIANGLES", m.indexCount, "GL_UNSIGNED_INT", 0)
    IN  g2

\* Mesh::draw
draw(g, m) ==
    LET g1 == glBindVertexArray(g, m.VAO)
        g2 == glDrawElements(g1, "GL_TRIANGLES", m.indexCount, "GL_UNSIGNED_INT", 0)
        g3 == glBindVertexArray(g2, 0)
    IN  g3

-----------------------------------------------------------------------------
(* GL shader and program objects                                           *)

\* GLSL sources: whether the text compiles, the uniforms it declares, the
\* varyings it writes (outs) and reads (ins)
Source(ok, uniforms, ins, outs) ==
    [ok |-> ok, uniforms |-> uniforms, ins |-> ins, outs |-> outs]

NoSource == Source(FALSE, <<>>, {}, {})

glCreateShader(g, type) ==
    LET n == FreshName(DOMAIN g.shaders)
    IN  [name |-> IF g.ctx = "current" THEN n ELSE 0,
         g |-> Call(g, [Count(g, "glCreateShader") EXCEPT
                            !.shaders = Put(@, n, [type |-> type, source |-> NoSource,
                                                   compiled |-> FALSE, flagged |-> FALSE])])]

glShaderSource(g, sh, src) ==
    Call(g, IF sh \notin DOMAIN g.shaders THEN g
            ELSE [g EXCEPT !.shaders[sh].source = src])

glCompileShader(g, sh) ==
    Call(g, IF sh \notin DOMAIN g.shaders THEN g
            ELSE [g EXCEPT !.shaders[sh].compiled = g.shaders[sh].source.ok])

\* glGetShaderiv(shader, GL_COMPILE_STATUS, &success)
glGetShaderiv(g, sh) == sh \in DOMAIN g.shaders /\ g.shaders[sh].compiled

glCreateProgram(g) ==
    LET n == FreshName(DOMAIN g.programs)
    IN  [name |-> IF g.ctx = "current" THEN n ELSE 0,
         g |-> Call(g, [Count(g, "glCreateProgram") EXCEPT
                            !.programs = Put(@, n, [attached |-> {}, linked |-> FALSE,
                                                    uniforms |-> <<>>, flagged |-> FALSE])])]

glAttachShader(g, p, sh) ==
    Call(g, IF p \notin DOMAIN g.programs \/ sh \notin DOMAIN g.shaders THEN g
            ELSE [g EXCEPT !.programs[p].attached = @ \cup {sh}])

\* the shaders of one stage attached to program p
Stage(g, p, type) == {sh \in g.programs[p].attached : g.shaders[sh].type = type}

\* the program links when it has a compiled shader of each stage and the
\* fragment stage reads only varyings the vertex stage writes
Linkable(g, p) ==
    /\ \A sh \in g.programs[p].attached : g.shaders[sh].compiled
    /\ Stage(g, p, "GL_VERTEX_SHADER") # {}
    /\ Stage(g, p, "GL_FRAGMENT_SHADER") # {}
    /\ \A f \in Stage(g, p, "GL_FRAGMENT_SHADER") :
          \A v \in Stage(g, p, "GL_VERTEX_SHADER") :
              g.shaders[f].source.ins \subseteq g.shaders[v].source.outs

\* the active uniforms of a linked program, each at location index - 1,
\* every value zero: the vertex stage's, then the fragment stage's
LinkedUniforms(g, p) ==
    LET decl(type) == IF Stage(g, p, type) = {} THEN <<>>
                      ELSE g.shaders[Min(Stage(g, p, type))].source.uniforms
        all == decl("GL_VERTEX_SHADER") \o decl("GL_FRAGMENT_SHADER")
    IN  [i \in 1..Len(all) |-> [name |-> all[i].name, type |-> all[i].type, value |-> "zero"]]

glLinkProgram(g, p) ==
    Call(g, IF p \notin DOMAIN g.programs THEN g
            ELSE IF Linkable(g, p)
            THEN [g EXCEPT !.programs[p].linked = TRUE,
                           !.programs[p].uniforms = LinkedUniforms(g, p)]
            ELSE [g EXCEPT !.programs[p].linked = FALSE,
                           !.programs[p].uniforms = <<>>])

\* glGetProgramiv(program, GL_LINK_STATUS, &success)
glGetProgramiv(g, p) == p \in DOMAIN g.programs /\ g.programs[p].linked

\* a shader attached to a program is only flagged by glDeleteShader; it is
\* freed when the last program it is attached to is
AttachedSomewhere(g, sh) == \E p \in DOMAIN g.programs : sh \in g.programs[p].attached

glDeleteShader(g, sh) ==
    Call(g, IF sh \notin DOMAIN g.shaders \/ g.shaders[sh].flagged THEN g
            ELSE IF AttachedSomewhere(g, sh)
            THEN [Count(g, "glDeleteShader") EXCEPT !.shaders[sh].flagged = TRUE]
            ELSE [Count(g, "glDeleteShader") EXCEPT !.shaders = Drop(@, sh)])

\* program p freed: its shaders are detached, and the flagged ones that no
\* other program holds are freed with it
FreeProgram(g, p) ==
    LET rest == Drop(g.programs, p)
        gone == {sh \in g.programs[p].attached :
                    /\ g.shaders[sh].flagged
                    /\ \A q \in DOMAIN rest : sh \notin rest[q].attached}
    IN  [g EXCEPT !.programs = rest,
                  !.shaders = [sh \in (DOMAIN g.shaders) \ gone |-> g.shaders[sh]]]

\* the active program is only flagged; it is freed when it stops being active
glDeleteProgram(g, p) ==
    Call(g, IF p \notin DOMAIN g.programs \/ g.programs[p].flagged THEN g
            ELSE IF g.current = p
            THEN [Count(g, "glDeleteProgram") EXCEPT !.programs[p].flagged = TRUE]
            ELSE FreeProgram(Count(g, "glDeleteProgram"), p))

\* INVALID_VALUE / INVALID_OPERATION (no such program, or not linked) leave
\* the active program as it was
glUseProgram(g, p) ==
    Call(g, IF p # 0 /\ (p \notin DOMAIN g.programs \/ ~g.programs[p].linked) THEN g
            ELSE IF p = g.current THEN g
            ELSE LET g1 == [g EXCEPT !.current = p]
                 IN  IF g.current # 0 /\ g.programs[g.current].flagged
                     THEN FreeProgram(g1, g.current)
                     ELSE g1)

\* -1 when the program is not linked or has no active uniform of that name
glGetUniformLocation(g, p, name) ==
    IF g.ctx # "current" \/ p \notin DOMAIN g.programs \/ ~g.programs[p].linked THEN -1
    ELSE LET at == {i \in DOMAIN g.programs[p].uniforms : g.programs[p].uniforms[i].name = name}
         IN  IF at = {} THEN -1 ELSE Min(at) - 1

\* glUniform*: writes the uniform at `location` of the ACTIVE program.
\* Location -1 is silently ignored; no active program, no such location or
\* a uniform of another type is INVALID_OPERATION and changes nothing
glUniform(g, type, location, value) ==
    Call(g, IF location = -1 \/ g.current = 0 THEN g
            ELSE LET us == g.programs[g.current].uniforms
                 IN  IF (location + 1) \notin DOMAIN us \/ us[location + 1].type # type THEN g
                     ELSE [g EXCEPT !.programs[g.current].uniforms[location + 1].value = value])

glUniform1f(g, location, value) == glUniform(g, "float", location, value)

glUniformMatrix4fv(g, location, count, transpose, value) == glUniform(g, "mat4", location, value)

-----------------------------------------------------------------------------
(* Shader (Shader.cpp)                                                     *)

\* a Shader not constructed yet
NoShader == [life |-> "unborn", programID |-> 0]

\* checkShaderCompileErrors with the test inverted: if (success)
checkShaderCompileErrorsInverted(g, o, sh, type) ==
    LET success == glGetShaderiv(g, sh)
    IN  IF success
        THEN Append(o, <<"ERROR::SHADER::", type, "::COMPILATION_FAILED", "infoLog">>)
        ELSE o

\* Shader::checkShaderCompileErrors: std::cout after the call
checkShaderCompileErrors(g, o, sh, type) ==
    LET success == glGetShaderiv(g, sh)
    IN  IF ~success
        THEN Append(o, <<"ERROR::SHADER::", type, "::COMPILATION_FAILED", "infoLog">>)
        ELSE o

\* checkProgramLinkErrors that queries the status and prints nothing
checkProgramLinkErrorsSilent(g, o, program) ==
    LET success == glGetProgramiv(g, program)
    IN  IF ~success THEN o ELSE o

\* Shader::checkProgramLinkErrors: std::cout after the call
checkProgramLinkErrors(g, o, program) ==
    LET success == glGetProgramiv(g, program)
    IN  IF ~success
        THEN Append(o, <<"ERROR::PROGRAM::LINKING_FAILED", "infoLog">>)
        ELSE o

\* Shader::Shader: the context, std::cout and the object it leaves behind
Shader(g, o, vertexSource, fragmentSource) ==
    LET v  == glCreateShader(g, "GL_VERTEX_SHADER")
        g1 == glShaderSource(v.g, v.name, vertexSource)
        g2 == glCompileShader(g1, v.name)
        o1 == checkShaderCompileErrors(g2, o, v.name, "VERTEX")
        f  == glCreateShader(g2, "GL_FRAGMENT_SHADER")
        g3 == glShaderSource(f.g, f.name, fragmentSource)
        g4 == glCompileShader(g3, f.name)
        o2 == checkShaderCompileErrors(g4, o1, f.name, "FRAGMENT")
        p  == glCreateProgram(g4)
        g5 == glAttachShader(p.g, p.name, v.name)
        g6 == glAttachShader(g5, p.name, f.name)
        g7 == glLinkProgram(g6, p.name)
        o3 == checkProgramLinkErrors(g7, o2, p.name)
        g8 == glDeleteShader(g7, v.name)
        g9 == glDeleteShader(g8, f.name)
    IN  [g |-> g9, out |-> o3, obj |-> [life |-> "alive", programID |-> p.name]]

\* a destructor that does not release the program
ShaderDtorLeaks(g, s) == g

\* Shader::~Shader
ShaderDtor(g, s) == glDeleteProgram(g, s.programID)

\* use() that activates no program
useNoProgram(g, s) == glUseProgram(g, 0)

\* Shader::use
use(g, s) == glUseProgram(g, s.programID)

\* Shader::setFloat
setFloat(g, s, name, value) ==
    LET location == glGetUniformLocation(g, s.programID, name)
    IN  glUniform1f(g, location, value)

\* Shader::setMat4
setMat4(g, s, name, value) ==
    glUniformMatrix4fv(g, glGetUniformLocation(g, s.programID, name), 1, FALSE, value)

-----------------------------------------------------------------------------
(* ObjSpec: the classes as a library                                       *)

\* main's vertex shader text: compiles, declares `uniform mat4 mvp`
VertexShaderSource == Source(TRUE, <<[name |-> "mvp", type |-> "mat4"]>>, {}, {})
\* main's fragment shader text: compiles, constant colour
FragmentShaderSource == Source(TRUE, <<>>, {}, {})
\* a vertex shader that declares `uniform float time`
TimeVertexSource == Source(TRUE, <<[name |-> "time", type |-> "float"]>>, {}, {})
\* a fragment shader that reads a varying no vertex shader here writes
VaryingFragmentSource == Source(TRUE, <<>>, {"vColor"}, {})
\* a text that does not compile
BadSource == Source(FALSE, <<>>, {}, {})

VertexSources == {VertexShaderSource, TimeVertexSource, BadSource}
FragmentSources == {FragmentShaderSource, VaryingFragmentSource, BadSource}

\* the Shader objects a client holds: main's `shader`, and a second one
ShaderObjs == {"shader", "other"}
UniformNames == {"mvp", "time", "absent"}

\* vertex lists: n vertices, three floats each
VertexLists == {[i \in 1..(3 * n) |-> i] : n \in 0..MaxVertices}
\* index lists, in range or not
IndexLists == UNION {[1..n -> 0..MaxVertices] : n \in 0..MaxIndexLen}

\* main's variables while only the classes are exercised
AppIdle ==
    /\ pc = "lib"
    /\ sdl = <<>>
    /\ running = FALSE
    /\ cam = <<>>
    /\ angle = <<>>
    /\ model = <<>>
    /\ frame = <<>>
    /\ exitCode = -1

ObjInit ==
    /\ gl = FreshGL("current")
    /\ out = <<>>
    /\ shader = [s \in ShaderObjs |-> NoShader]
    /\ cube = NoMesh
    /\ AppIdle

NewShader(s, vs, fs) ==
    /\ shader[s].life = "unborn"
    /\ LET r == Shader(gl, out, vs, fs)
       IN  /\ gl' = r.g
           /\ out' = r.out
           /\ shader' = [shader EXCEPT ![s] = r.obj]
    /\ UNCHANGED <<cube, appVars>>

UseShader(s) ==
    /\ shader[s].life = "alive"
    /\ gl' = use(gl, shader[s])
    /\ UNCHANGED <<out, shader, cube, appVars>>

SetFloat(s, name, value) ==
    /\ shader[s].life = "alive"
    /\ gl' = setFloat(gl, shader[s], name, value)
    /\ UNCHANGED <<out, shader, cube, appVars>>

SetMat4(s, name, value) ==
    /\ shader[s].life = "alive"
    /\ gl' = setMat4(gl, shader[s], name, value)
    /\ UNCHANGED <<out, shader, cube, appVars>>

DeleteShader(s) ==
    /\ shader[s].life = "alive"
    /\ gl' = ShaderDtor(gl, shader[s])
    /\ shader' = [shader EXCEPT ![s].life = "dead"]
    /\ UNCHANGED <<out, cube, appVars>>

NewMesh(vertices, indices) ==
    /\ cube.life = "unborn"
    /\ LET r == Mesh(gl, vertices, indices)
       IN  /\ gl' = r.g
           /\ cube' = r.obj
    /\ UNCHANGED <<out, shader, appVars>>

DrawMesh ==
    /\ cube.life = "alive"
    /\ gl.draws < MaxDraws
    /\ gl' = draw(gl, cube)
    /\ UNCHANGED <<out, shader, cube, appVars>>

DeleteMesh ==
    /\ cube.life = "alive"
    /\ gl' = MeshDtor(gl, cube)
    /\ cube' = [cube EXCEPT !.life = "dead"]
    /\ UNCHANGED <<out, shader, appVars>>

ObjNext ==
    \/ \E s \in ShaderObjs, vs \in VertexSources, fs \in FragmentSources : NewShader(s, vs, fs)
    \/ \E s \in ShaderObjs : UseShader(s)
    \/ \E s \in ShaderObjs, n \in UniformNames : SetFloat(s, n, "one")
    \/ \E s \in ShaderObjs, n \in UniformNames : SetMat4(s, n, "M")
    \/ \E s \in ShaderObjs : DeleteShader(s)
    \/ \E v \in VertexLists, i \in IndexLists : NewMesh(v, i)
    \/ DrawMesh
    \/ DeleteMesh

ObjSpec == ObjInit /\ [][ObjNext]_vars

-----------------------------------------------------------------------------
(* Single-precision arithmetic (the `float` locals of main)                *)

\* a float is m * 2^e with 2^23 <= |m| < 2^24, or zero
Float(m, e) == [m |-> m, e |-> e]
Zero == Float(0, 0)

Abs(n) == IF n < 0 THEN -n ELSE n
Sign(n) == IF n < 0 THEN -1 ELSE 1

\* the number of bits of a > 0
Bits(a) == CHOOSE n \in 1..31 : 2^(n-1) <= a /\ (n = 31 \/ a < 2^n)

\* t * 2^e rounded to the nearest float, ties to even
RoundToFloat(t, e) ==
    IF t = 0 THEN Zero
    ELSE LET a == Abs(t)
             k == Bits(a) - 24
         IN  IF k <= 0 THEN Float(t * 2^(-k), e + k)
             ELSE LET q == a \div 2^k
                      r == a % 2^k
                      half == 2^(k-1)
                      up == r > half \/ (r = half /\ q % 2 = 1)
                      q1 == IF up THEN q + 1 ELSE q
                  IN  IF q1 = 2^24 THEN Float(Sign(t) * 2^23, e + k + 1)
                      ELSE Float(Sign(t) * q1, e + k)

\* a + b as the FPU computes it: the operand of smaller exponent is aligned
\* with three extra bits, the bits shifted out kept as a sticky bit, and
\* the sum rounded to nearest even
FAdd(a, b) ==
    IF a.m = 0 THEN b
    ELSE IF b.m = 0 THEN a
    ELSE LET hi == IF a.e >= b.e THEN a ELSE b
             lo == IF a.e >= b.e THEN b ELSE a
             d == hi.e - lo.e
             mag == Abs(lo.m) * 8
             shifted == IF d >= 28 THEN 0 ELSE mag \div 2^d
             sticky == d >= 28 \/ mag % 2^d # 0
             aligned == IF sticky /\ shifted % 2 = 0 THEN shifted + 1 ELSE shifted
         IN  RoundToFloat(hi.m * 8 + Sign(lo.m) * aligned, hi.e - 3)

FNeg(a) == Float(-a.m, a.e)
FSub(a, b) == FAdd(a, FNeg(b))

-----------------------------------------------------------------------------
(* main (main.cpp)                                                         *)

\* the six scancodes main reads
Keys == {"W", "S", "D", "A", "SPACE", "LSHIFT"}

\* the states of SDL's keyboard array the environment drives it through:
\* nothing held, one key held, both keys of the X pair held, one key of
\* each pair held, and all six held
KeyStates == {{}} \cup {{k} : k \in Keys} \cup {{"D", "A"}, {"D", "W", "SPACE"}, Keys}

\* the cube: 8 vertices (in units of 0.5) and 36 indices
CubeVertices ==
    <<-1, -1, 1,   1, -1, 1,   1, 1, 1,   -1, 1, 1,
      -1, -1, -1,  1, -1, -1,  1, 1, -1,  -1, 1, -1>>
CubeIndices ==
    <<0, 1, 2,  2, 3, 0,   1, 5, 6,  6, 2, 1,   5, 4, 7,  7, 6, 5,
      4, 0, 3,  3, 7, 4,   3, 2, 6,  6, 7, 3,   0, 1, 5,  5, 4, 0>>

\* float moveSpeed = 0.01f  (0x3C23D70A)
moveSpeed == Float(10737418, -30)
\* angle += 0.0025f  (0x3B23D70A)
angleStep == Float(10737418, -32)
\* cameraX = 0.0f, cameraY = 0.0f, cameraZ = -5.0f
cameraInit == [x |-> Zero, y |-> Zero, z |-> Float(-10485760, -21)]

\* projection * view * model, model being the rotation about Y by angle a
Mvp(a) == <<"perspective(60deg, 800/600, 0.01, 100)", "lookAt((2,2,2), (0,0,0), (0,1,0))",
            <<"rotate(Y)", a>>>>

\* the steps of one iteration of the frame loop, in source order
FrameSteps == <<"drain", "keys", "rotate", "glClear", "use", "setMat4", "draw",
                "SDL_GL_SwapWindow", "angle">>

NoFrame ==
    [n       |-> 0,       \* iterations begun
     steps   |-> <<>>,    \* the steps the current iteration has done
     quitAt  |-> 0,       \* the iteration whose drain consumed SDL_QUIT
     atLaunch |-> <<>>,   \* the events queued when the process started
     dRun    |-> 0,       \* iterations in a row sampled with D held and A not
     xStart  |-> Zero,    \* cameraX when that run began
     before  |-> <<>>,    \* the camera before this iteration's keyboard tests
     inits   |-> 0]       \* initialisation chains run to the end

Init ==
    /\ gl = FreshGL("none")
    /\ out = <<>>
    /\ shader = [s \in ShaderObjs |-> NoShader]
    /\ cube = NoMesh
    /\ pc = "SDL_Init"
    /\ \E q \in {<<>>, <<"SDL_QUIT">>, <<"SDL_KEYDOWN">>} :
          /\ sdl = [up |-> "no",          \* SDL_Init: "no", "yes", "failed", "quit"
                    window |-> "none",    \* "none", "open", "null", "destroyed"
                    glew |-> "none",      \* glewInit: "none", "ok", "failed"
                    events |-> q,         \* the event queue
                    posted |-> Len(q),    \* events ever queued
                    keys |-> {},          \* the scancodes held (keyboardState)
                    log |-> <<>>]         \* the teardown calls made, in order
          /\ frame = [NoFrame EXCEPT !.atLaunch = q]
    /\ running = FALSE
    /\ cam = <<>>
    /\ angle = <<>>
    /\ model = <<>>
    /\ exitCode = -1

Log(s, call) == [s EXCEPT !.log = Append(@, call)]

\* return <code> from main
Return(code) == pc' = "exited" /\ exitCode' = code

\* SDL_Init(SDL_INIT_VIDEO) and its failure branch
SDL_Init ==
    /\ pc = "SDL_Init"
    /\ \/ /\ sdl' = [sdl EXCEPT !.up = "yes"]
          /\ pc' = "SDL_CreateWindow"
          /\ UNCHANGED <<out, exitCode>>
       \/ /\ out' = Append(out, <<"SDL could not initialize! SDL_Error: ">>)
          /\ sdl' = [sdl EXCEPT !.up = "failed"]
          /\ Return(1)
    /\ UNCHANGED <<gl, shader, cube, running, cam, angle, model, frame>>

\* SDL_CreateWindow and its failure branch
SDL_CreateWindow ==
    /\ pc = "SDL_CreateWindow"
    /\ \/ /\ sdl' = [sdl EXCEPT !.window = "open"]
          /\ pc' = "SDL_GL_CreateContext"
          /\ UNCHANGED <<out, exitCode>>
       \/ /\ out' = Append(out, <<"Window could not be created! SDL_Error: ">>)
          /\ sdl' = [Log(sdl, "SDL_Quit") EXCEPT !.window = "null", !.up = "quit"]
          /\ Return(1)
    /\ UNCHANGED <<gl, shader, cube, running, cam, angle, model, frame>>

\* SDL_GL_CreateContext whose failure branch leaves the window open
SDL_GL_CreateContextLeaksWindow ==
    /\ pc = "SDL_GL_CreateContext"
    /\ \/ /\ gl' = FreshGL("current")
          /\ pc' = "glewInit"
          /\ UNCHANGED <<out, sdl, exitCode>>
       \/ /\ out' = Append(out, <<"OpenGL context could not be created! SDL_Error: ">>)
          /\ sdl' = [Log(sdl, "SDL_Quit") EXCEPT !.up = "quit"]
          /\ gl' = FreshGL("null")
          /\ Return(1)
    /\ UNCHANGED <<shader, cube, running, cam, angle, model, frame>>

\* SDL_GL_CreateContext and its failure branch
SDL_GL_CreateContext ==
    /\ pc = "SDL_GL_CreateContext"
    /\ \/ /\ gl' = FreshGL("current")
          /\ pc' = "glewInit"
          /\ UNCHANGED <<out, sdl, exitCode>>
       \/ /\ out' = Append(out, <<"OpenGL context could not be created! SDL_Error: ">>)
          /\ sdl' = [Log(Log(sdl, "SDL_DestroyWindow"), "SDL_Quit") EXCEPT
                         !.window = "destroyed", !.up = "quit"]
          /\ gl' = FreshGL("null")
          /\ Return(1)
    /\ UNCHANGED <<shader, cube, running, cam, angle, model, frame>>

\* SDL_GL_DeleteContext: the context goes, and every object in it
DeleteContext(g) ==
    [FreshGL("deleted") EXCEPT !.calls = g.calls, !.ignored = g.ignored,
                               !.draws = g.draws]

\* glewInit whose failure branch prints and does not return
glewInitFallsThrough ==
    /\ pc = "glewInit"
    /\ \/ /\ gl' = glEnable(gl, "GL_DEPTH_TEST")
          /\ sdl' = [sdl EXCEPT !.glew = "ok"]
          /\ frame' = [frame EXCEPT !.inits = @ + 1]
          /\ UNCHANGED out
       \/ /\ out' = Append(out, <<"GLEW could not initialize!">>)
          /\ gl' = glEnable(gl, "GL_DEPTH_TEST")
          /\ sdl' = [sdl EXCEPT !.glew = "failed"]
          /\ UNCHANGED frame
    /\ pc' = "Shader"
    /\ UNCHANGED <<shader, cube, running, cam, angle, model, exitCode>>

\* glewInit and its failure branch; on success glEnable(GL_DEPTH_TEST)
glewInit ==
    /\ pc = "glewInit"
    /\ \/ /\ gl' = glEnable(gl, "GL_DEPTH_TEST")
          /\ pc' = "Shader"
          /\ sdl' = [sdl EXCEPT !.glew = "ok"]
          /\ frame' = [frame EXCEPT !.inits = @ + 1]
          /\ UNCHANGED <<out, exitCode>>
       \/ /\ out' = Append(out, <<"GLEW could not initialize!">>)
          /\ gl' = DeleteContext(gl)
          /\ sdl' = [Log(Log(Log(sdl, "SDL_GL_DeleteContext"), "SDL_DestroyWindow"),
                         "SDL_Quit") EXCEPT
                         !.glew = "failed", !.window = "destroyed", !.up = "quit"]
          /\ Return(1)
          /\ UNCHANGED frame
    /\ UNCHANGED <<shader, cube, running, cam, angle, model>>

\* Shader shader(vertexShaderSource, fragmentShaderSource)
MainShader ==
    /\ pc = "Shader"
    /\ LET r == Shader(gl, out, VertexShaderSource, FragmentShaderSource)
       IN  /\ gl' = r.g
           /\ out' = r.out
           /\ shader' = [shader EXCEPT !["shader"] = r.obj]
    /\ pc' = "Mesh"
    /\ UNCHANGED <<cube, sdl, running, cam, angle, model, frame, exitCode>>

\* Mesh cube(vertices, indices), then the locals declared before the loop
MainMesh ==
    /\ pc = "Mesh"
    /\ LET r == Mesh(gl, CubeVertices, CubeIndices)
       IN  /\ gl' = r.g
           /\ cube' = r.obj
    /\ model' = Zero
    /\ cam' = cameraInit
    /\ running' = TRUE
    /\ angle' = Zero
    /\ pc' = "while"
    /\ UNCHANGED <<out, shader, sdl, frame, exitCode>>

\* while (running)
While ==
    /\ pc = "while"
    /\ IF running
       THEN /\ frame.n < MaxFrames
            /\ pc' = "SDL_PollEvent"
            /\ frame' = [frame EXCEPT !.n = @ + 1, !.steps = <<>>, !.before = <<>>]
       ELSE /\ pc' = "SDL_GL_DeleteContext"
            /\ UNCHANGED frame
    /\ UNCHANGED <<gl, out, shader, cube, sdl, running, cam, angle, model, exitCode>>

\* what SDL_PumpEvents may do inside a poll: queue one more event and
\* bring the keyboard array up to date
Pumped(s) ==
    {[s EXCEPT !.events = @ \o q, !.posted = @ + Len(q), !.keys = k] :
        q \in {<<>>} \cup {<<e>> : e \in IF s.posted < MaxEvents
                                         THEN {"SDL_QUIT", "SDL_KEYDOWN"} ELSE {}},
        k \in KeyStates}

\* the drain with the SDL_QUIT test missing: every event is dropped
SDL_PollEventIgnoresQuit ==
    /\ pc = "SDL_PollEvent"
    /\ \E s \in Pumped(sdl) :
          IF s.events # <<>>
          THEN /\ sdl' = [s EXCEPT !.events = Tail(@)]
               /\ IF Head(s.events) = "SDL_QUIT"
                  THEN frame' = [frame EXCEPT !.quitAt = IF @ = 0 THEN frame.n ELSE @]
                  ELSE UNCHANGED frame
               /\ pc' = "SDL_PollEvent"
               /\ UNCHANGED running
          ELSE /\ sdl' = s
               /\ frame' = [frame EXCEPT !.steps = Append(@, "drain")]
               /\ pc' = "keys"
               /\ UNCHANGED running
    /\ UNCHANGED <<gl, out, shader, cube, cam, angle, model, exitCode>>

\* while (SDL_PollEvent(&event)) { if (event.type == SDL_QUIT) running = false; }
SDL_PollEvent ==
    /\ pc = "SDL_PollEvent"
    /\ \E s \in Pumped(sdl) :
          IF s.events # <<>>
          THEN /\ sdl' = [s EXCEPT !.events = Tail(@)]
               /\ IF Head(s.events) = "SDL_QUIT"
                  THEN /\ running' = FALSE
                       /\ frame' = [frame EXCEPT !.quitAt = IF @ = 0 THEN frame.n ELSE @]
                  ELSE UNCHANGED <<running, frame>>
               /\ pc' = "SDL_PollEvent"
          ELSE /\ sdl' = s
               /\ frame' = [frame EXCEPT !.steps = Append(@, "drain")]
               /\ pc' = "keys"
               /\ UNCHANGED running
    /\ UNCHANGED <<gl, out, shader, cube, cam, angle, model, exitCode>>

\* one axis: if (keyboardState[plus]) v += moveSpeed; if (keyboardState[minus]) v -= moveSpeed;
Integrate(v, keyboardState, plus, minus) ==
    LET v1 == IF plus \in keyboardState THEN FAdd(v, moveSpeed) ELSE v
    IN  IF minus \in keyboardState THEN FSub(v1, moveSpeed) ELSE v1

\* the keyboard tests with the X and Z key pairs exchanged
UpdateCameraSwapped(c, keyboardState) ==
    [x |-> Integrate(c.x, keyboardState, "W", "S"),
     y |-> Integrate(c.y, keyboardState, "SPACE", "LSHIFT"),
     z |-> Integrate(c.z, keyboardState, "D", "A")]

\* the six keyboard tests of the loop
UpdateCamera(c, keyboardState) ==
    [x |-> Integrate(c.x, keyboardState, "D", "A"),
     y |-> Integrate(c.y, keyboardState, "SPACE", "LSHIFT"),
     z |-> Integrate(c.z, keyboardState, "W", "S")]

Step(name) == frame' = [frame EXCEPT !.steps = Append(@, name)]

KeysStep ==
    /\ pc = "keys"
    /\ cam' = UpdateCamera(cam, sdl.keys)
    /\ frame' = [frame EXCEPT
                    !.steps = Append(@, "keys"),
                    !.before = cam,
                    !.dRun = IF "D" \in sdl.keys /\ "A" \notin sdl.keys THEN @ + 1 ELSE 0,
                    !.xStart = IF "D" \in sdl.keys /\ "A" \notin sdl.keys /\ frame.dRun > 0
                               THEN @ ELSE IF "D" \in sdl.keys /\ "A" \notin sdl.keys
                               THEN cam.x ELSE cam'.x]
    /\ pc' = "rotate"
    /\ UNCHANGED <<gl, out, shader, cube, sdl, running, angle, model, exitCode>>

\* Rotate with the camera's X offset added into the rotation angle
RotateFollowsCamera ==
    /\ pc = "rotate"
    /\ model' = FAdd(angle, cam.x)
    /\ Step("rotate")
    /\ pc' = "glClear"
    /\ UNCHANGED <<gl, out, shader, cube, sdl, running, cam, angle, exitCode>>

\* model = glm::rotate(mat4(1), angle, Y); mvp = projection * view * model
Rotate ==
    /\ pc = "rotate"
    /\ model' = angle
    /\ Step("rotate")
    /\ pc' = "glClear"
    /\ UNCHANGED <<gl, out, shader, cube, sdl, running, cam, angle, exitCode>>

\* glClearColor; glClear
Clear ==
    /\ pc = "glClear"
    /\ gl' = glClear(gl)
    /\ Step("glClear")
    /\ pc' = "use"
    /\ UNCHANGED <<out, shader, cube, sdl, running, cam, angle, model, exitCode>>

\* shader.use()
Use ==
    /\ pc = "use"
    /\ gl' = use(gl, shader["shader"])
    /\ Step("use")
    /\ pc' = "setMat4"
    /\ UNCHANGED <<out, shader, cube, sdl, running, cam, angle, model, exitCode>>

\* shader.setMat4("mvp", mvp)
SetMvp ==
    /\ pc = "setMat4"
    /\ gl' = setMat4(gl, shader["shader"], "mvp", Mvp(model))
    /\ Step("setMat4")
    /\ pc' = "draw"
    /\ UNCHANGED <<out, shader, cube, sdl, running, cam, angle, model, exitCode>>

\* cube.draw()
Draw ==
    /\ pc = "draw"
    /\ gl' = draw(gl, cube)
    /\ Step("draw")
    /\ pc' = "SDL_GL_SwapWindow"
    /\ UNCHANGED <<out, shader, cube, sdl, running, cam, angle, model, exitCode>>

\* SDL_GL_SwapWindow(window)
SwapWindow ==
    /\ pc = "SDL_GL_SwapWindow"
    /\ gl' = [gl EXCEPT !.cleared = 0]
    /\ Step("SDL_GL_SwapWindow")
    /\ pc' = "angle"
    /\ UNCHANGED <<out, shader, cube, sdl, running, cam, angle, model, exitCode>>

\* angle += 0.0025f
AngleStep ==
    /\ pc = "angle"
    /\ angle' = FAdd(angle, angleStep)
    /\ Step("angle")
    /\ pc' = "while"
    /\ UNCHANGED <<gl, out, shader, cube, sdl, running, cam, model, exitCode>>

\* SDL_GL_DeleteContext(glContext)
SDL_GL_DeleteContext ==
    /\ pc = "SDL_GL_DeleteContext"
    /\ gl' = DeleteContext(gl)
    /\ sdl' = Log(sdl, "SDL_GL_DeleteContext")
    /\ pc' = "SDL_DestroyWindow"
    /\ UNCHANGED <<out, shader, cube, running, cam, angle, model, frame, exitCode>>

\* SDL_DestroyWindow(window)
SDL_DestroyWindow ==
    /\ pc = "SDL_DestroyWindow"
    /\ sdl' = [Log(sdl, "SDL_DestroyWindow") EXCEPT !.window = "destroyed"]
    /\ pc' = "SDL_Quit"
    /\ UNCHANGED <<gl, out, shader, cube, running, cam, angle, model, frame, exitCode>>

\* SDL_Quit()
SDL_Quit ==
    /\ pc = "SDL_Quit"
    /\ sdl' = [Log(sdl, "SDL_Quit") EXCEPT !.up = "quit"]
    /\ pc' = "return"
    /\ UNCHANGED <<gl, out, shader, cube, running, cam, angle, model, frame, exitCode>>

\* return 0: the locals go out of scope, cube before shader
ReturnZero ==
    /\ pc = "return"
    /\ gl' = ShaderDtor(MeshDtor(gl, cube), shader["shader"])
    /\ cube' = [cube EXCEPT !.life = "dead"]
    /\ shader' = [shader EXCEPT !["shader"].life = "dead"]
    /\ Return(0)
    /\ UNCHANGED <<out, sdl, running, cam, angle, model, frame>>

Next ==
    \/ SDL_Init
    \/ SDL_CreateWindow
    \/ SDL_GL_CreateContext
    \/ glewInit
    \/ MainShader
    \/ MainMesh
    \/ While
    \/ SDL_PollEvent
    \/ KeysStep
    \/ Rotate
    \/ Clear
    \/ Use
    \/ SetMvp
    \/ Draw
    \/ SwapWindow
    \/ AngleStep
    \/ SDL_GL_DeleteContext
    \/ SDL_DestroyWindow
    \/ SDL_Quit
    \/ ReturnZero

Spec == Init /\ [][Next]_vars

-----------------------------------------------------------------------------
(* Claims about the classes (ObjSpec)                                      *)

Born == {s \in ShaderObjs : shader[s].life # "unborn"}
Alive == {s \in ShaderObjs : shader[s].life = "alive"}
Dead == {s \in ShaderObjs : shader[s].life = "dead"}

CompileDiag(type) == <<"ERROR::SHADER::", type, "::COMPILATION_FAILED", "infoLog">>
LinkDiag == <<"ERROR::PROGRAM::LINKING_FAILED", "infoLog">>
Printed(d) == \E i \in DOMAIN out : out[i] = d

\* C1: a Mesh built from any vertex list and any index list allocates one
\* vertex array and two buffers, once each; while it lives all three are
\* live; once destroyed each has been released exactly once and no mesh
\* allocation is left. The three are allocated together and released
\* together: the number of live allocations is only ever 0 or 3.
C1_MeshAllocatedAndReleasedOnce ==
    LET gens == <<gl.calls["glGenVertexArrays"], gl.calls["glGenBuffers"]>>
        dels == <<gl.calls["glDeleteVertexArrays"], gl.calls["glDeleteBuffers"]>>
        live == Cardinality(DOMAIN gl.vaos) + Cardinality(DOMAIN gl.buffers)
    IN  /\ cube.life = "unborn" => gens = <<0, 0>> /\ dels = <<0, 0>> /\ live = 0
        /\ cube.life = "alive" =>
              /\ gens = <<1, 2>> /\ dels = <<0, 0>>
              /\ DOMAIN gl.vaos = {cube.VAO}
              /\ DOMAIN gl.buffers = {cube.VBO, cube.EBO}
              /\ live = 3
        /\ cube.life = "dead" => gens = <<1, 2>> /\ dels = <<1, 2>> /\ live = 0

\* C1 witness: a Mesh constructed and destroyed with no draw in between
C1_Witness ==
    /\ cube.life = "dead"
    /\ gl.draws = 0
    /\ gl.calls["glGenBuffers"] = 2
    /\ gl.calls["glDeleteBuffers"] = 2

\* C2: whatever the outcome of compiling and linking, every constructed
\* Shader created one program and two stage objects; both stage objects
\* were handed to glDeleteShader inside the constructor; the program of a
\* living Shader is live and not marked for deletion, and glDeleteProgram
\* has run exactly once per destroyed Shader and never otherwise.
C2_ProgramReleasedOnceInDtor ==
    /\ gl.calls["glCreateProgram"] = Cardinality(Born)
    /\ gl.calls["glDeleteProgram"] = Cardinality(Dead)
    /\ gl.calls["glCreateShader"] = 2 * Cardinality(Born)
    /\ gl.calls["glDeleteShader"] = 2 * Cardinality(Born)
    /\ \A sh \in DOMAIN gl.shaders : gl.shaders[sh].flagged
    /\ \A s \in Alive :
          /\ shader[s].programID \in DOMAIN gl.programs
          /\ ~gl.programs[shader[s].programID].flagged
          /\ \A t \in Alive : t # s => shader[t].programID # shader[s].programID
    /\ \A p \in DOMAIN gl.programs :
          \/ \E s \in Alive : shader[s].programID = p
          \/ gl.programs[p].flagged /\ gl.current = p

\* C2 witness: a Shader whose link failed has been destroyed
C2_Witness ==
    /\ shader["shader"].life = "dead"
    /\ shader["other"].life = "unborn"
    /\ Printed(LinkDiag)
    /\ gl.calls["glDeleteProgram"] = 1

\* what a construction from (vs, fs) prints: one diagnostic per stage that
\* fails to compile, then the link diagnostic if the link fails
ExpectedDiagnostics(vs, fs) ==
    (IF vs.ok THEN <<>> ELSE <<CompileDiag("VERTEX")>>)
    \o (IF fs.ok THEN <<>> ELSE <<CompileDiag("FRAGMENT")>>)
    \o (IF vs.ok /\ fs.ok /\ fs.ins \subseteq vs.outs THEN <<>> ELSE <<LinkDiag>>)

\* C3: a construction in which a stage fails to compile still completes:
\* the Shader is alive afterwards, both stage objects were compiled (each
\* with its own status), both were attached and the link was attempted and
\* reported; the output gains exactly one compile diagnostic per failing
\* stage, naming that stage, and none for a stage that compiled.
C3_CompileFailureReportedNotFatal ==
    [][\A s \in ShaderObjs, vs \in VertexSources, fs \in FragmentSources :
          (NewShader(s, vs, fs) /\ (~vs.ok \/ ~fs.ok)) =>
              LET p == shader'[s].programID
                  printed == SubSeq(out', Len(out) + 1, Len(out'))
              IN  /\ shader'[s].life = "alive"
                  /\ SubSeq(out', 1, Len(out)) = out
                  /\ printed = ExpectedDiagnostics(vs, fs)
                  /\ (\E i \in DOMAIN printed : printed[i] = CompileDiag("VERTEX")) <=> ~vs.ok
                  /\ (\E i \in DOMAIN printed : printed[i] = CompileDiag("FRAGMENT")) <=> ~fs.ok
                  /\ printed[Len(printed)] = LinkDiag
                  /\ p \in DOMAIN gl'.programs
                  /\ ~gl'.programs[p].linked
                  /\ {gl'.shaders[sh].compiled : sh \in Stage(gl', p, "GL_VERTEX_SHADER")} = {vs.ok}
                  /\ {gl'.shaders[sh].compiled : sh \in Stage(gl', p, "GL_FRAGMENT_SHADER")} = {fs.ok}
      ]_vars

\* C3 witness: a living Shader whose vertex stage failed and whose fragment
\* stage compiled, with the VERTEX diagnostic printed
C3_Witness ==
    /\ shader["shader"].life = "alive"
    /\ shader["other"].life = "unborn"
    /\ out = <<CompileDiag("VERTEX"), LinkDiag>>
    /\ \E sh \in DOMAIN gl.shaders :
          gl.shaders[sh].type = "GL_FRAGMENT_SHADER" /\ gl.shaders[sh].compiled

\* C4: a construction in which both stages compile and the link fails
\* prints the link diagnostic (and no compile diagnostic) and completes
\* with a non-null handle of a live, unlinked program; and as long as any
\* Shader lives, its handle does not change and names a live program not
\* marked for deletion, so use()/setFloat()/setMat4() can be called on it.
C4_LinkFailureReportedHandleKept ==
    [][/\ \A s \in ShaderObjs, vs \in VertexSources, fs \in FragmentSources :
            (NewShader(s, vs, fs) /\ vs.ok /\ fs.ok /\ ~(fs.ins \subseteq vs.outs)) =>
                /\ out' = Append(out, LinkDiag)
                /\ shader'[s].life = "alive"
                /\ shader'[s].programID # 0
                /\ shader'[s].programID \in DOMAIN gl'.programs
                /\ ~gl'.programs[shader'[s].programID].linked
       /\ \A s \in ShaderObjs :
            (shader[s].life = "alive" /\ shader'[s].life = "alive") =>
                /\ shader'[s].programID = shader[s].programID
                /\ shader[s].programID # 0
                /\ shader[s].programID \in DOMAIN gl'.programs
                /\ ~gl'.programs[shader[s].programID].flagged
                /\ gl'.programs[shader[s].programID].linked
                      = gl.programs[shader[s].programID].linked
      ]_vars

\* C4 witness: a living Shader whose stages compiled and whose link failed,
\* after use() and setMat4() were called on it
C4_Witness ==
    /\ shader["shader"].life = "alive"
    /\ out = <<LinkDiag>>
    /\ shader["shader"].programID # 0
    /\ ~gl.programs[shader["shader"].programID].linked
    /\ shader["other"].life = "alive"
    /\ gl.current # 0

\* the context g with the value of one uniform of program p overwritten
WithUniform(g, p, location, value) ==
    [g EXCEPT !.programs[p].uniforms[location + 1].value = value]

\* C5 (as claimed): setFloat/setMat4 with a name that does not resolve
\* leaves the whole context unchanged, and with a name that resolves
\* changes at most the value of that one uniform of the Shader's program.
C5_SetUniformTouchesOnlyThatUniform ==
    [][\A s \in ShaderObjs, n \in UniformNames :
          (SetFloat(s, n, "one") \/ SetMat4(s, n, "M")) =>
              LET p == shader[s].programID
                  location == glGetUniformLocation(gl, p, n)
              IN  IF location = -1 THEN gl' = gl
                  ELSE \E v \in {"zero", "one", "M"} : gl' = WithUniform(gl, p, location, v)
      ]_vars

\* C11: every draw() of a living Mesh, however many came before, issues
\* exactly one glDrawElements(GL_TRIANGLES, L, GL_UNSIGNED_INT, 0), L the
\* length of the index list the Mesh was built from, with the Mesh's vertex
\* array bound and the index data intact; on return no vertex array is
\* bound, and the Mesh's handles and index count, the GPU objects and the
\* active program are what they were.
C11_DrawIssuesOneDrawOfAllIndices ==
    [][DrawMesh =>
          LET L == Len(gl.buffers[cube.EBO].data)
          IN  /\ gl'.draws = gl.draws + 1
              /\ gl'.lastDraw = [mode |-> "GL_TRIANGLES", count |-> L,
                                 type |-> "GL_UNSIGNED_INT", vao |-> cube.VAO,
                                 program |-> gl.current]
              /\ gl.vaos[cube.VAO].ebo = cube.EBO
              /\ gl'.boundVAO = 0
              /\ cube' = cube
              /\ cube.indexCount = L
              /\ gl'.current = gl.current
              /\ gl'.vaos = gl.vaos
              /\ gl'.buffers = gl.buffers
              /\ gl'.programs = gl.programs
              /\ gl'.calls = gl.calls
      ]_vars

\* C11 witness: the second draw of a Mesh built from one index, issued
\* while a program is active
C11_Witness ==
    /\ cube.life = "alive"
    /\ cube.indexCount = 1
    /\ gl.draws = 2
    /\ gl.lastDraw.count = 1
    /\ gl.lastDraw.vao = cube.VAO
    /\ gl.lastDraw.program # 0
    /\ gl.boundVAO = 0

-----------------------------------------------------------------------------
(* Claims about main (Spec)                                                *)

\* the pcs inside the loop body after the drain, in source order
BodyPcs == <<"keys", "rotate", "glClear", "use", "setMat4", "draw", "SDL_GL_SwapWindow", "angle">>
InBody == \E i \in DOMAIN BodyPcs : pc = BodyPcs[i]

WindowFailed == sdl.window = "null"
ContextFailed == gl.ctx = "null"
GlewFailed == sdl.glew = "failed"
InitFailed == sdl.up = "failed"

\* what a failed window / context / loader initialisation leads to
FatalInitFailure ==
    /\ WindowFailed => Printed(<<"Window could not be created! SDL_Error: ">>)
    /\ ContextFailed => Printed(<<"OpenGL context could not be created! SDL_Error: ">>)
    /\ GlewFailed => Printed(<<"GLEW could not initialize!">>)
    /\ (WindowFailed \/ ContextFailed \/ GlewFailed) =>
          /\ pc = "exited"
          /\ exitCode = 1
          /\ Len(out) = 1
          /\ running = FALSE
          /\ frame.n = 0
          /\ frame.inits = 0
          /\ \A s \in ShaderObjs : shader[s].life = "unborn"
          /\ cube.life = "unborn"
          /\ \A c \in LifecycleCalls : gl.calls[c] = 0

\* C6 (as claimed): a failed window, context or loader initialisation is
\* fatal as described, and the process exits non-zero only after one of
\* those three failures.
C6_OnlyTheThreeFailuresExitNonZero ==
    /\ FatalInitFailure
    /\ (pc = "exited" /\ exitCode # 0) => (WindowFailed \/ ContextFailed \/ GlewFailed)

\* C6 (amended): a failed window, context or loader initialisation prints
\* its diagnostic, constructs no Shader and no Mesh, runs no iteration and
\* exits with status 1; the process exits non-zero only after one of those
\* three failures or a failed SDL_Init, and exits 0 otherwise.
C6_InitFailuresAreTheOnlyFatalOnes ==
    /\ FatalInitFailure
    /\ (pc = "exited" /\ exitCode # 0) =>
          (InitFailed \/ WindowFailed \/ ContextFailed \/ GlewFailed)
    /\ (pc = "exited" /\ (InitFailed \/ WindowFailed \/ ContextFailed \/ GlewFailed)) =>
          exitCode = 1
    /\ InitFailed => (pc = "exited" /\ frame.n = 0 /\ cube.life = "unborn")

\* C6 witness: the loader failed after window and context were created
C6_Witness ==
    /\ GlewFailed
    /\ pc = "exited"
    /\ exitCode = 1
    /\ out = <<<<"GLEW could not initialize!">>>>

Teardown == <<"SDL_GL_DeleteContext", "SDL_DestroyWindow", "SDL_Quit">>
Logged(call) == \E i \in DOMAIN sdl.log : sdl.log[i] = call

\* C7: the teardown calls made so far are always some of context release,
\* window release, subsystem termination, in that order and none twice;
\* and when the process has exited, on every path, each of the three that
\* was created has been released exactly once and none that was not.
C7_TeardownInOrderOnce ==
    /\ sdl.log = SelectSeq(Teardown, Logged)
    /\ Logged("SDL_GL_DeleteContext") <=> gl.ctx = "deleted"
    /\ Logged("SDL_DestroyWindow") <=> sdl.window = "destroyed"
    /\ Logged("SDL_Quit") <=> sdl.up = "quit"
    /\ pc = "exited" =>
          /\ gl.ctx \in {"none", "null", "deleted"}
          /\ sdl.window \in {"none", "null", "destroyed"}
          /\ sdl.up \in {"failed", "quit"}
          /\ sdl.up = "failed" => sdl.log = <<>>
          /\ exitCode = 0 => sdl.log = Teardown

\* C7 witness: the exit after a failed context creation
C7_Witness ==
    /\ pc = "exited"
    /\ ContextFailed
    /\ sdl.log = <<"SDL_DestroyWindow", "SDL_Quit">>

StepsBefore(p) ==
    LET i == CHOOSE j \in DOMAIN BodyPcs : BodyPcs[j] = p
    IN  SubSeq(FrameSteps, 1, i)

-----------------------------------------------------------------------------
(* Exact values of floats, for the camera claims                           *)

\* every camera coordinate is a whole number of units of 2^-30
OnGrid(f) == f.e >= -30 \/ f.m % 2^(-30 - f.e) = 0

\* f in units of 2^-30, as hi * 2^15 + lo with 0 <= lo < 2^15
Exact(f) ==
    LET sh == f.e + 30
    IN  IF f.m = 0 THEN [hi |-> 0, lo |-> 0]
        ELSE IF sh >= 15 THEN [hi |-> f.m * 2^(sh - 15), lo |-> 0]
        ELSE IF sh >= 0
        THEN [hi |-> f.m \div 2^(15 - sh), lo |-> (f.m % 2^(15 - sh)) * 2^sh]
        ELSE [hi |-> (f.m \div 2^(-sh)) \div 2^15, lo |-> (f.m \div 2^(-sh)) % 2^15]

\* a - b in units of 2^-30
Diff(a, b) == (Exact(a).hi - Exact(b).hi) * 2^15 + (Exact(a).lo - Exact(b).lo)

\* moveSpeed in units of 2^-30
StepUnits == Diff(moveSpeed, Zero)

\* the unit in the last place of f, in units of 2^-30 (0 when finer)
Ulp(f) == IF f.m = 0 \/ f.e < -30 THEN 0 ELSE 2^(f.e + 30)

Max(a, b) == IF a >= b THEN a ELSE b

Held(k) == k \in sdl.keys

\* main has reached the declarations of cameraX, cameraY, cameraZ
CameraDeclared == DOMAIN cam # {}

\* axis v moved from v0 to v1 by exactly its keys' steps
MovedExactly(v0, v1, plus, minus) ==
    Diff(v1, v0) = (IF Held(plus) THEN StepUnits ELSE 0) - (IF Held(minus) THEN StepUnits ELSE 0)

\* C10 (as claimed): after N iterations in a row sampled with D held and A
\* not, cameraX is exactly N * moveSpeed above where it was, and in every
\* iteration Y and Z change by exactly +moveSpeed / -moveSpeed for their
\* own keys.
C10_CameraMovesExactlyNTimesStep ==
    CameraDeclared =>
    /\ Diff(cam.x, frame.xStart) = frame.dRun * StepUnits
    /\ (InBody /\ pc # "keys") =>
          /\ MovedExactly(frame.before.y, cam.y, "SPACE", "LSHIFT")
          /\ MovedExactly(frame.before.z, cam.z, "W", "S")

\* axis v moved from v0 to v1 by its keys' steps, each a float addition
\* rounded to nearest: off by at most half a unit in the last place of the
\* result of each addition made, and not at all when no key of the pair is held
MovedRounded(v0, v1, plus, minus) ==
    LET mid == FAdd(v0, moveSpeed)
    IN  /\ (~Held(plus) /\ ~Held(minus)) => v1 = v0
        /\ (Held(plus) /\ ~Held(minus)) =>
              /\ 2 * Abs(Diff(v1, v0) - StepUnits) <= Ulp(v1)
              /\ Diff(v1, v0) > 0
        /\ (~Held(plus) /\ Held(minus)) =>
              /\ 2 * Abs(Diff(v1, v0) + StepUnits) <= Ulp(v1)
              /\ Diff(v1, v0) < 0
        /\ (Held(plus) /\ Held(minus)) =>
              2 * Abs(Diff(v1, v0)) <= Ulp(mid) + Ulp(v1)

\* C10 (amended): each iteration sampled with D held and A not adds
\* moveSpeed to cameraX in single precision, so after N such iterations in
\* a row cameraX is above where it was by N * moveSpeed up to N roundings,
\* each of at most half a unit in the last place (exactly N * moveSpeed
\* only while every partial sum is representable); every axis moves only
\* by the rounded steps of its own key pair.
C10_CameraMovesNRoundedSteps ==
    CameraDeclared =>
    /\ OnGrid(cam.x) /\ OnGrid(cam.y) /\ OnGrid(cam.z)
    /\ 2 * Abs(Diff(cam.x, frame.xStart) - frame.dRun * StepUnits)
          <= frame.dRun * Max(Ulp(frame.xStart), Ulp(cam.x))
    /\ frame.dRun > 0 => Diff(cam.x, frame.xStart) > 0
    /\ frame.dRun = 0 => frame.xStart = cam.x
    /\ (InBody /\ pc # "keys") =>
          /\ MovedRounded(frame.before.x, cam.x, "D", "A")
          /\ MovedRounded(frame.before.y, cam.y, "SPACE", "LSHIFT")
          /\ MovedRounded(frame.before.z, cam.z, "W", "S")

\* C10 witness: five iterations in a row with D held from cameraX = 0: the
\* fifth sum is rounded, to 53687088 * 2^-30, two units short of 5 * moveSpeed
C10_Witness ==
    /\ CameraDeclared
    /\ frame.dRun = 5
    /\ frame.xStart = Zero
    /\ cam.x = Float(13421772, -28)
    /\ Diff(cam.x, Zero) = 5 * StepUnits - 2

\* C12: no GL call is ever issued without the rendering context being
\* current; in particular when the process has exited, the three deletes of
\* ~Mesh and the glDeleteProgram of ~Shader have been executed by the
\* context that main created, for every Mesh and Shader that was destroyed.
C12_NoGLCallAfterContextDeleted ==
    /\ gl.ignored = 0
    /\ (pc = "exited" /\ cube.life = "dead") =>
          /\ gl.calls["glDeleteVertexArrays"] = 1
          /\ gl.calls["glDeleteBuffers"] = 2
    /\ (pc = "exited" /\ shader["shader"].life = "dead") =>
          gl.calls["glDeleteProgram"] = 1

-----------------------------------------------------------------------------
(* The uploaded matrix                                                     *)

\* a rotation angle in units of 2^-32 (-1 when finer than that)
AngleUnits(f) == IF f.m = 0 THEN 0 ELSE IF f.e >= -32 THEN f.m * 2^(f.e + 32) ELSE -1

\* the unit in the last place of the angle f, in units of 2^-32
AngleUlp(f) == IF f.m = 0 \/ f.e < -32 THEN 0 ELSE 2^(f.e + 32)

\* the angle after k increments: k single-precision additions of 0.0025f
RECURSIVE AngleAfter(_)
AngleAfter(k) == IF k = 0 THEN Zero ELSE FAdd(AngleAfter(k - 1), angleStep)

\* the angles of all the iterations the loop can make
Angles == [k \in 0..MaxFrames |-> AngleAfter(k)]

\* the iteration under way, counted from 0
K == frame.n - 1

\* the value of the mvp uniform of main's Shader
Uploaded == gl.programs[shader["shader"].programID].uniforms[1].value

\* the upload of the current iteration has been made
AfterUpload == pc \in {"draw", "SDL_GL_SwapWindow", "angle"}

\* C13 (as claimed): the matrix uploaded in iteration k is projection *
\* view * rotation about Y by exactly k times the increment 0.0025f,
\* whatever keys are held, and the angle grows only after the present.
C13_MvpRotatesByKTimesIncrement ==
    /\ AfterUpload =>
          \E a \in {angle} :
              /\ Uploaded = Mvp(a)
              /\ AngleUnits(a) = K * AngleUnits(angleStep)
    /\ (pc = "SDL_PollEvent" \/ InBody) => AngleUnits(angle) = K * AngleUnits(angleStep)

\* C13 (amended): the matrix uploaded in iteration k is a function of k
\* alone, whatever keys are held and wherever the camera is: projection *
\* view * rotation about Y by the angle that k single-precision additions
\* of 0.0025f to 0 give. That angle is k * 0.0025f up to k roundings of at
\* most half a unit in the last place each, and exactly k * 0.0025f for
\* k <= 4. The angle is stepped once per iteration, after the present.
C13_MvpDeterminedByIterationAlone ==
    /\ AfterUpload =>
          /\ Uploaded = Mvp(Angles[K])
          /\ 2 * Abs(AngleUnits(Uploaded[3][2]) - K * AngleUnits(angleStep))
                <= K * AngleUlp(Uploaded[3][2])
          /\ K <= 4 => AngleUnits(Uploaded[3][2]) = K * AngleUnits(angleStep)
    /\ (pc = "SDL_PollEvent" \/ InBody) => angle = Angles[K]
    /\ (pc = "while" /\ CameraDeclared) => angle = Angles[frame.n]

\* C13 witness: the sixth iteration (k = 5) has uploaded its matrix with a
\* key held and the camera away from its start: the angle is the rounded
\* sum 53687088 * 2^-32, two units short of 5 * 0.0025f
C13_Witness ==
    /\ pc = "draw"
    /\ K = 5
    /\ sdl.keys # {}
    /\ cam # cameraInit
    /\ Uploaded = Mvp(Float(13421772, -30))
    /\ AngleUnits(angle) = 5 * AngleUnits(angleStep) - 2

====
